---- MODULE Spec2Model ----
(***************************************************************************)
(* A model of the lderp directory adapters (src/lib/lderp.js): the base    *)
(* adapter Lderp with its lazily created connection, and the eDirectory    *)
(* adapter LderpEdir with its two-phase modifyUser.                        *)
(*                                                                         *)
(* The connection (ldapjs-promise) and the directory behind it are the     *)
(* environment: every call on the connection is answered later, either     *)
(* with success or with an error, and a failed call changes nothing in the *)
(* directory.                                                              *)
(*                                                                         *)
(* JavaScript is single threaded: the code of an async method between two  *)
(* awaits runs atomically, so each action below is one such stretch of     *)
(* code: from the invocation to the first call on the connection, or from  *)
(* the answer of one call to the next call (or to the return/throw).       *)
(***************************************************************************)
EXTENDS Integers, Sequences, FiniteSets, TLC

VARIABLES
    client,     \* Lderp.#client: NoClient (null) or the handle of the connection
    created,    \* number of ldap.createClient calls made so far
    connState,  \* state of the connection: "none", "open", "bound", "unbound", "destroyed"
    dir,        \* the directory behind the connection: DN -> entry attributes or NoEntry
    inv,        \* per caller: the adapter method it is running (or ran last)
    started,    \* number of adapter methods invoked so far
    fx          \* the fixValue experiment: raw value, first and second application

vars == <<client, created, connState, dir, inv, started, fx>>

----------------------------------------------------------------------------
(* Bounds *)

\* total number of adapter methods the callers invoke in the concurrent run
MaxOps == 3
\* largest number of keys in the map handed to modifyUser in the sequential run
MaxKeys == 2
\* largest number of key/value pairs in the where clause handed to find
MaxPairs == 2

----------------------------------------------------------------------------
(* JavaScript values.  Strings are TLA+ strings; undefined (a key that is   *)
(* absent from an object) and null are two reserved strings.               *)

Undefined == "<undefined>"
Null == "<null>"

\* JS truthiness of undefined, null and strings
Truthy(v) == v \notin {Undefined, Null, ""}

\* JS a || b
Or(a, b) == IF Truthy(a) THEN a ELSE b

\* JS template-literal conversion `${ v }`
ToStr(v) == IF v = Null THEN "null" ELSE IF v = Undefined THEN "undefined" ELSE v

----------------------------------------------------------------------------
(* ValueCoercer: Lderp.fixValue.  Here a raw string is a sequence of       *)
(* one-character strings, so that toUpperCase is computed character by      *)
(* character; a JS value is a string, a boolean, or the TypeError thrown.  *)

Str(s) == [kind |-> "string", chars |-> s, bool |-> FALSE]
Bool(b) == [kind |-> "boolean", chars |-> <<>>, bool |-> b]
TypeError == [kind |-> "TypeError", chars |-> <<>>, bool |-> FALSE]
NoValue == [kind |-> "none", chars |-> <<>>, bool |-> FALSE]

UpperChar(ch) ==
    CASE ch = "t" -> "T" [] ch = "r" -> "R" [] ch = "u" -> "U" [] ch = "e" -> "E"
      [] ch = "f" -> "F" [] ch = "a" -> "A" [] ch = "l" -> "L" [] ch = "s" -> "S"
      [] ch = "y" -> "Y"
      [] OTHER -> ch

\* String.prototype.toUpperCase
toUpperCase(s) == [i \in 1..Len(s) |-> UpperChar(s[i])]

\* fixValue without the toUpperCase: the tokens are matched as they are written
fixValue_CaseSensitive(type, value) ==
    IF value.kind # "string" THEN TypeError
    ELSE IF value.chars = <<"F", "A", "L", "S", "E">> THEN Bool(FALSE)
    ELSE IF value.chars = <<"T", "R", "U", "E">> THEN Bool(TRUE)
    ELSE value

\* Lderp.fixValue(type, value): value.toUpperCase() throws a TypeError when
\* value is not a string (a boolean has no toUpperCase)
fixValue(type, value) ==
    IF value.kind # "string" THEN TypeError
    ELSE LET upper == toUpperCase(value.chars)
         IN  IF upper = <<"F", "A", "L", "S", "E">> THEN Bool(FALSE)
             ELSE IF upper = <<"T", "R", "U", "E">> THEN Bool(TRUE)
             ELSE value

\* the words whose casings are the raw values tried
Words ==
    { <<"t", "r", "u", "e">>, <<"f", "a", "l", "s", "e">>, <<"t", "r", "u">>,
      <<"t", "r", "u", "e", "s">>, <<"y", "e", "s">>, <<>>, <<"0">>, <<"1">> }

\* every casing of a word: the characters at the positions in m upper-cased
Casings(w) ==
    { [i \in 1..Len(w) |-> IF i \in m THEN UpperChar(w[i]) ELSE w[i]] : m \in SUBSET (1..Len(w)) }

RawStrings == UNION { Casings(w) : w \in Words }

AttributeTypes == {"cn", "loginDisabled"}

FxIdle == [pc |-> "idle", type |-> "cn", raw |-> <<>>, once |-> NoValue, twice |-> NoValue]

\* fixValue applied to a raw attribute value, as #formatEntryPojo does
FixOnce ==
    /\ fx.pc = "input"
    /\ fx' = [fx EXCEPT !.pc = "once", !.once = fixValue(fx.type, Str(fx.raw))]
    /\ UNCHANGED <<client, created, connState, dir, inv, started>>

\* fixValue applied to its own result
FixTwice ==
    /\ fx.pc = "once"
    /\ fx' = [fx EXCEPT !.pc = "twice", !.twice = fixValue(fx.type, fx.once)]
    /\ UNCHANGED <<client, created, connState, dir, inv, started>>

----------------------------------------------------------------------------
(* Adapter configuration (the constructor's options) and DNs *)

baseDn == "o=acme"
usernameAttribute == "cn"

\* the common names that occur, in the order the directory lists their entries
CNOrder == <<"jdoe", "jdoe2">>
CNs == { CNOrder[i] : i \in 1..Len(CNOrder) }

\* LderpEdir.buildDn(cn, baseDn = this.baseDn)
buildDn(cn) == "cn=" \o ToStr(cn) \o "," \o baseDn

DNs == { "cn=" \o c \o "," \o baseDn : c \in CNs }
CnOf(dn) == CHOOSE c \in CNs : dn = "cn=" \o c \o "," \o baseDn

----------------------------------------------------------------------------
(* JS objects with string keys: a function from Keys to values, Undefined  *)
(* for a key the object does not have.  The keys of an object literal are  *)
(* taken to be written in the order of InputKeyOrder.                      *)

InputKeyOrder ==
    << "cn", "username", "uid", "givenName", "firstname", "firstName", "first",
       "mail", "email", "sn", "lastname", "lastName", "last",
       "userPassword", "password", "title" >>

Keys == { InputKeyOrder[i] : i \in 1..Len(InputKeyOrder) }

EmptyObj == [k \in Keys |-> Undefined]

Has(obj, k) == obj[k] # Undefined

\* the values a caller puts under a key
Vals == {Null, "", "jdoe", "jdoe2"}

KeySets == { S \in SUBSET Keys : Cardinality(S) <= MaxKeys }

\* every map with at most MaxKeys keys
Inputs == UNION { { [k \in Keys |-> IF k \in S THEN f[k] ELSE Undefined] : f \in [S -> Vals] } : S \in KeySets }

----------------------------------------------------------------------------
(* FilterBuilder.  A where clause is an ordered list of <<key, value>>     *)
(* pairs with distinct keys, or not given at all.                          *)

NoWhere == [given |-> FALSE, pairs |-> <<>>]
Where(pairs) == [given |-> TRUE, pairs |-> pairs]

\* where[key]
Get(where, key) ==
    IF \E i \in 1..Len(where.pairs) : where.pairs[i][1] = key
    THEN where.pairs[CHOOSE i \in 1..Len(where.pairs) : where.pairs[i][1] = key][2]
    ELSE Undefined

\* _.isEmpty(where)
isEmpty(where) == ~where.given \/ where.pairs = <<>>

RECURSIVE Join(_)
\* Array.prototype.join('')
Join(strs) == IF strs = <<>> THEN "" ELSE Head(strs) \o Join(Tail(strs))

\* Lderp.#buildUserFilter(username)
buildUserFilter(username) == "(" \o usernameAttribute \o "=" \o ToStr(username) \o ")"

\* #buildFilterFromWhere that wraps a single pair in (&...) too
buildFilterFromWhere_AlwaysAnd(where) ==
    LET filters == [i \in 1..Len(where.pairs) |->
                      "(" \o where.pairs[i][1] \o "=" \o ToStr(where.pairs[i][2]) \o ")"]
    IN  "(&" \o Join(filters) \o ")"

\* Lderp.#buildFilterFromWhere(where)
buildFilterFromWhere(where) ==
    LET filters == [i \in 1..Len(where.pairs) |->
                      "(" \o where.pairs[i][1] \o "=" \o ToStr(where.pairs[i][2]) \o ")"]
    IN  IF Len(filters) > 1 THEN "(&" \o Join(filters) \o ")" ELSE Join(filters)

\* the filter Lderp.find(where) searches with
findFilter(where) ==
    IF isEmpty(where) THEN buildUserFilter("*")
    ELSE IF ~Truthy(Get(where, "filter")) THEN buildFilterFromWhere(where)
    ELSE Get(where, "filter")

WhereKeys == {"filter", "cn", "mail"}
WhereVals == {"", Null, "jdoe", "(mail=*)"}

\* every where clause of at most MaxPairs pairs, and the absent one
Wheres ==
    {NoWhere} \cup
    { Where(p) : p \in { q \in UNION { [1..n -> WhereKeys \X WhereVals] : n \in 0..MaxPairs } :
                           \A i, j \in 1..Len(q) : i # j => q[i][1] # q[j][1] } }

----------------------------------------------------------------------------
(* LderpEdir.modifyUser: the normalisation of the input map and the change *)
(* list built from it.                                                     *)

\* const newCn = values.cn || values.username || null
newCnOf(values) == Or(Or(values["cn"], values["username"]), Null)

\* the five assignments values.uid = ..., values.givenName = ..., ...
assignCanonical(values) ==
    [values EXCEPT
        !["uid"] = Or(Or(values["uid"], newCnOf(values)), Null),
        !["givenName"] = Or(Or(Or(Or(values["givenName"], values["firstname"]),
                                  values["firstName"]), values["first"]), Null),
        !["mail"] = Or(Or(values["mail"], values["email"]), Null),
        !["sn"] = Or(Or(Or(Or(values["sn"], values["lastname"]),
                           values["lastName"]), values["last"]), Null),
        !["userPassword"] = Or(Or(values["userPassword"], values["password"]), Null)]

\* the keys handed to _.omit
OmittedKeys == {"cn", "username", "firstname", "email", "lastname", "password"}

\* _.omit(values, keys)
omit(values, keys) == [k \in Keys |-> IF k \in keys THEN Undefined ELSE values[k]]

\* _.omitBy(values, _.isNull)
omitByIsNull(values) == [k \in Keys |-> IF values[k] = Null THEN Undefined ELSE values[k]]

\* the object `values` is after line 242
normalize(values) == omitByIsNull(omit(assignCanonical(values), OmittedKeys))

\* the keys the five assignments add to an object that lacks them, in order
CanonicalOrder == <<"uid", "givenName", "mail", "sn", "userPassword">>

\* the key order of the normalised object: the input's own keys first, then
\* the keys the assignments added, then what omit and omitBy leave of them
keyOrder(values) ==
    LET InInput(k) == Has(values, k)
        Added(k) == ~Has(values, k)
        Kept(k) == Has(normalize(values), k)
    IN  SelectSeq(SelectSeq(InputKeyOrder, InInput) \o SelectSeq(CanonicalOrder, Added), Kept)

\* Lderp.buildLdapModificationObject(type, values), for a scalar value
buildLdapModificationObject(type, value) == [type |-> type, values |-> <<value>>]

\* Lderp.buildLdapChangeObject(operation, modification)
buildLdapChangeObject(operation, modification) ==
    [operation |-> operation, modification |-> modification]

\* const changes = _.map(values, ...) of an already normalised object
changesOf(values, order) ==
    [i \in 1..Len(order) |->
        buildLdapChangeObject("replace", buildLdapModificationObject(order[i], values[order[i]]))]

----------------------------------------------------------------------------
(* The directory behind the connection *)

NoEntry == [exists |-> FALSE, attrs |-> EmptyObj, objectClass |-> <<>>]

\* LderpEdir.#buildObjectClass()
buildObjectClass == <<"inetOrgPerson", "organizationalPerson", "Person", "ndsLoginProperties", "Top">>

\* LderpEdir.buildUserEntry(options)
buildUserEntry(options) ==
    [exists |-> TRUE,
     attrs |-> [options EXCEPT !["uid"] = options["cn"]],
     objectClass |-> buildObjectClass]

\* the directory's attribute k of the entry at dn: its cn is the one of its DN
AttrOf(dn, k) == IF k = "cn" THEN CnOf(dn) ELSE dir[dn].attrs[k]

\* whether the entry at dn matches an equality or a presence filter
EntryMatches(dn, filter) ==
    \E k \in Keys :
        /\ AttrOf(dn, k) \notin {Undefined, Null}
        /\ \/ filter = "(" \o k \o "=" \o AttrOf(dn, k) \o ")"
           \/ filter = "(" \o k \o "=*)"

Existing == { d \in DNs : dir[d].exists }

\* the entries a successful search with this filter returns, as their DNs
searchEntries(filter) ==
    LET dns == [i \in 1..Len(CNOrder) |-> "cn=" \o CNOrder[i] \o "," \o baseDn]
        Found(d) == d \in Existing /\ EntryMatches(d, filter)
    IN  SelectSeq(dns, Found)

\* a successful modify: every replace-change sets its attribute
applyChanges(entry, changes) ==
    [entry EXCEPT !.attrs =
        [k \in Keys |->
            IF \E i \in 1..Len(changes) : changes[i].modification.type = k
            THEN LET last == CHOOSE i \in 1..Len(changes) :
                                /\ changes[i].modification.type = k
                                /\ \A j \in (i+1)..Len(changes) : changes[j].modification.type # k
                 IN  changes[last].modification.values[1]
            ELSE entry.attrs[k]]]

\* a successful modifyDN: the entry moves to the new DN
renamed(d, oldDn, newDn) ==
    IF oldDn = newDn THEN d
    ELSE [d EXCEPT ![newDn] = d[oldDn], ![oldDn] = NoEntry]

\* the directory the runs start from: one user, jdoe
InitDir ==
    [d \in DNs |->
        IF CnOf(d) = "jdoe"
        THEN buildUserEntry([EmptyObj EXCEPT !["cn"] = "jdoe", !["mail"] = "jdoe"])
        ELSE NoEntry]

----------------------------------------------------------------------------
(* The callers and what each is running *)

Callers == {"A", "B"}

NoClient == 0

\* a call on the connection, as issued; status becomes "ok" or "error" when answered
Call(method, conn) ==
    [method |-> method, conn |-> conn, dn |-> "", newDn |-> "", changes |-> <<>>,
     filter |-> "", entry |-> NoEntry, status |-> "pending"]

\* a caller that runs nothing
IdleInv ==
    [op |-> "idle", pc |-> "idle", cn |-> "", input |-> EmptyObj, where |-> NoWhere,
     newCn |-> Null, values |-> EmptyObj, order |-> <<>>, entries |-> <<>>, userDn |-> "",
     calls |-> <<>>, outcome |-> "none", result |-> "", error |-> ""]

CanInvoke(c) == inv[c].pc \in {"idle", "done"}

\* the last call of a caller answered
Answered(calls, ok) == [calls EXCEPT ![Len(calls)].status = IF ok THEN "ok" ELSE "error"]

\* the caller's pending call answered
Ans(r, ok) == [r EXCEPT !.calls = Answered(r.calls, ok)]

\* the method returns (the promise resolves with result)
Returned(r, result) == [r EXCEPT !.pc = "done", !.outcome = "returned", !.result = result]

\* the method throws (the promise rejects with error)
Raised(r, error) == [r EXCEPT !.pc = "done", !.outcome = "raised", !.error = error]

\* the client getter creating a connection at every use
GetClient_NoGuard ==
    /\ client' = created + 1
    /\ created' = created + 1
    /\ connState' = "open"

\* get client(): if (!this.#client) this.#client = ldap.createClient(options)
GetClient ==
    IF client = NoClient
    THEN /\ client' = created + 1
         /\ created' = created + 1
         /\ connState' = "open"
    ELSE UNCHANGED <<client, created, connState>>

\* an adapter method that makes one call on the connection and awaits it
Invoke(c, op, call) ==
    /\ CanInvoke(c)
    /\ GetClient
    /\ inv' = [inv EXCEPT ![c] = [IdleInv EXCEPT !.op = op, !.pc = "call", !.calls = <<call>>]]
    /\ started' = started + 1
    /\ UNCHANGED <<dir, fx>>

----------------------------------------------------------------------------
(* Lderp: bindAsUser, createUser, deleteUser, find, unbind, destroy *)

\* Lderp.bindAsUser(dn, password)
BindAsUser(c, cn) ==
    Invoke(c, "bindAsUser", [Call("bind", client') EXCEPT !.dn = buildDn(cn)])

BindDone(c, ok) ==
    /\ inv[c].op = "bindAsUser" /\ inv[c].pc = "call"
    /\ inv' = [inv EXCEPT ![c] = IF ok THEN Returned(Ans(@, ok), "undefined") ELSE Raised(Ans(@, ok), "bind error")]
    /\ connState' = IF ok THEN "bound" ELSE connState
    /\ UNCHANGED <<client, created, dir, started, fx>>

\* LderpEdir.createUser(values)
CreateUser(c, values) ==
    Invoke(c, "createUser",
           [Call("add", client') EXCEPT !.dn = buildDn(values["cn"]), !.entry = buildUserEntry(values)])

CreateDone(c, ok) ==
    LET call == inv[c].calls[1] IN
    /\ inv[c].op = "createUser" /\ inv[c].pc = "call"
    /\ ok => ~dir[call.dn].exists
    /\ inv' = [inv EXCEPT ![c] = IF ok THEN Returned(Ans(@, ok), "undefined") ELSE Raised(Ans(@, ok), "add error")]
    /\ dir' = IF ok THEN [dir EXCEPT ![call.dn] = call.entry] ELSE dir
    /\ UNCHANGED <<client, created, connState, started, fx>>

\* LderpEdir.deleteUser(cn)
DeleteUser(c, cn) ==
    Invoke(c, "deleteUser", [Call("del", client') EXCEPT !.dn = buildDn(cn)])

DeleteDone(c, ok) ==
    LET call == inv[c].calls[1] IN
    /\ inv[c].op = "deleteUser" /\ inv[c].pc = "call"
    /\ ok => dir[call.dn].exists
    /\ inv' = [inv EXCEPT ![c] = IF ok THEN Returned(Ans(@, ok), "undefined") ELSE Raised(Ans(@, ok), "del error")]
    /\ dir' = IF ok THEN [dir EXCEPT ![call.dn] = NoEntry] ELSE dir
    /\ UNCHANGED <<client, created, connState, started, fx>>

\* Lderp.find(where), up to the searchReturnAll call of Lderp.search
Find(c, where) ==
    /\ CanInvoke(c)
    /\ GetClient
    /\ inv' = [inv EXCEPT ![c] =
                 [IdleInv EXCEPT !.op = "find", !.pc = "call", !.where = where,
                     !.calls = <<[Call("searchReturnAll", client') EXCEPT !.dn = baseDn, !.filter = findFilter(where)]>>]]
    /\ started' = started + 1
    /\ UNCHANGED <<dir, fx>>

\* Lderp.search after the await: the entries formatted and returned
FindDone(c, ok) ==
    /\ inv[c].op = "find" /\ inv[c].pc = "call"
    /\ inv' = [inv EXCEPT ![c] = IF ok THEN Returned(Ans(@, ok), "entries") ELSE Raised(Ans(@, ok), "search error")]
    /\ UNCHANGED <<client, created, connState, dir, started, fx>>

\* Lderp.unbind()
Unbind(c) == Invoke(c, "unbind", Call("unbind", client'))

\* the promise of client.unbind() is what unbind returns: its error is unbind's
UnbindDone(c, ok) ==
    /\ inv[c].op = "unbind" /\ inv[c].pc = "call"
    /\ inv' = [inv EXCEPT ![c] = IF ok THEN Returned(Ans(@, ok), "undefined") ELSE Raised(Ans(@, ok), "unbind error")]
    /\ connState' = IF ok THEN "unbound" ELSE connState
    /\ UNCHANGED <<client, created, dir, started, fx>>

\* Lderp.destroy()
Destroy(c) == Invoke(c, "destroy", Call("destroy", client'))

\* the promise of client.destroy() is what destroy returns: its error is destroy's
DestroyDone(c, ok) ==
    /\ inv[c].op = "destroy" /\ inv[c].pc = "call"
    /\ inv' = [inv EXCEPT ![c] = IF ok THEN Returned(Ans(@, ok), "undefined") ELSE Raised(Ans(@, ok), "destroy error")]
    /\ connState' = IF ok THEN "destroyed" ELSE connState
    /\ UNCHANGED <<client, created, dir, started, fx>>

----------------------------------------------------------------------------
(* LderpEdir.modifyUser(cn, values) *)

\* lines 235-243: the input normalised, then findUser(cn) up to its search call
ModifyUser(c, cn, values) ==
    /\ CanInvoke(c)
    /\ GetClient
    /\ inv' = [inv EXCEPT ![c] =
                 [IdleInv EXCEPT !.op = "modifyUser", !.pc = "search", !.cn = cn, !.input = values,
                     !.newCn = newCnOf(values), !.values = normalize(values), !.order = keyOrder(values),
                     !.calls = <<[Call("searchReturnAll", client') EXCEPT !.dn = baseDn, !.filter = buildUserFilter(cn)]>>]]
    /\ started' = started + 1
    /\ UNCHANGED <<dir, fx>>

\* the step after a successful modify with the test of newCn left out
AfterModify_AlwaysRename(r) ==
    [r EXCEPT !.pc = "modifyDN", !.result = "modify result", !.calls = r.calls \o
        <<[Call("modifyDN", client) EXCEPT !.dn = r.userDn, !.newDn = buildDn(r.newCn)]>>]

\* lines 252-254: if (!newCn) return result; else the modifyDN call is issued
AfterModify(r) ==
    IF ~Truthy(r.newCn)
    THEN Returned(r, "modify result")
    ELSE [r EXCEPT !.pc = "modifyDN", !.result = "modify result", !.calls = r.calls \o
            <<[Call("modifyDN", client) EXCEPT !.dn = r.userDn, !.newDn = buildDn(r.newCn)]>>]

\* the step after findUser with the test of the user left out: the entry is
\* taken to be where buildDn puts it
AfterFindUser_NoCheck(r, entries) ==
    LET dn == IF entries = <<>> THEN buildDn(r.cn) ELSE entries[1] IN
    [r EXCEPT !.pc = "modify", !.entries = entries, !.userDn = dn, !.calls = r.calls \o
        <<[Call("modify", client) EXCEPT !.dn = dn, !.changes = changesOf(r.values, r.order)]>>]

\* lines 84-85 and 244-251: findUser gives the first entry or null; no user
\* throws, else the changes are built and the modify call is issued
AfterFindUser(r, entries) ==
    IF entries = <<>>
    THEN Raised([r EXCEPT !.entries = entries], "User could not be located")
    ELSE [r EXCEPT !.pc = "modify", !.entries = entries, !.userDn = entries[1], !.calls = r.calls \o
            <<[Call("modify", client) EXCEPT !.dn = entries[1], !.changes = changesOf(r.values, r.order)]>>]

\* the search of findUser answered
ModifyUserFound(c, ok) ==
    /\ inv[c].op = "modifyUser" /\ inv[c].pc = "search"
    /\ inv' = [inv EXCEPT ![c] =
                 IF ok THEN AfterFindUser(Ans(@, ok), searchEntries(@.calls[1].filter))
                 ELSE Raised(Ans(@, ok), "search error")]
    /\ UNCHANGED <<client, created, connState, dir, started, fx>>

\* a failed modify handled as a successful one is
ModifyFailed_Continue(r) == AfterModify(r)

\* line 251: the await of a rejected modify throws its error out of modifyUser
ModifyFailed(r) == Raised(r, "modify error")

\* the modify call answered
ModifyUserModified(c, ok) ==
    LET call == inv[c].calls[Len(inv[c].calls)] IN
    /\ inv[c].op = "modifyUser" /\ inv[c].pc = "modify"
    /\ ok => dir[call.dn].exists
    /\ inv' = [inv EXCEPT ![c] = IF ok THEN AfterModify(Ans(@, ok)) ELSE ModifyFailed(Ans(@, ok))]
    /\ dir' = IF ok THEN [dir EXCEPT ![call.dn] = applyChanges(@, call.changes)] ELSE dir
    /\ UNCHANGED <<client, created, connState, started, fx>>

\* a failed modifyDN swallowed: the modify result returned all the same
RenameFailed_Swallow(r) == Returned(r, r.result)

\* line 254: the await of a rejected modifyDN throws its error out of modifyUser
RenameFailed(r) == Raised(r, "modifyDN error")

\* the modifyDN call answered
ModifyUserRenamed(c, ok) ==
    LET call == inv[c].calls[Len(inv[c].calls)] IN
    /\ inv[c].op = "modifyUser" /\ inv[c].pc = "modifyDN"
    /\ ok => /\ dir[call.dn].exists
             /\ call.newDn # call.dn => ~dir[call.newDn].exists
    /\ inv' = [inv EXCEPT ![c] = IF ok THEN Returned(Ans(@, ok), @.result) ELSE RenameFailed(Ans(@, ok))]
    /\ dir' = IF ok THEN renamed(dir, call.dn, call.newDn) ELSE dir
    /\ UNCHANGED <<client, created, connState, started, fx>>

----------------------------------------------------------------------------
(* The runs *)

InitAdapter ==
    /\ client = NoClient
    /\ created = 0
    /\ connState = "none"
    /\ dir = InitDir
    /\ inv = [c \in Callers |-> IdleInv]
    /\ started = 0

\* what the callers of the concurrent run pass
SmallInputs ==
    { EmptyObj, [EmptyObj EXCEPT !["cn"] = "jdoe2"], [EmptyObj EXCEPT !["mail"] = "jdoe2"] }
SmallWheres == { NoWhere, Where(<< <<"cn", "jdoe">> >>) }

\* two callers of one adapter, each invoking one method after the other,
\* their methods interleaving at the awaits
Init == InitAdapter /\ fx = FxIdle

Next ==
    \E c \in Callers :
        \/ /\ started < MaxOps
           /\ \/ \E cn \in CNs : BindAsUser(c, cn)
              \/ \E cn \in CNs : CreateUser(c, [EmptyObj EXCEPT !["cn"] = cn])
              \/ \E cn \in CNs : DeleteUser(c, cn)
              \/ \E w \in SmallWheres : Find(c, w)
              \/ \E cn \in CNs, v \in SmallInputs : ModifyUser(c, cn, v)
              \/ Unbind(c)
              \/ Destroy(c)
        \/ \E ok \in BOOLEAN :
              \/ BindDone(c, ok)
              \/ CreateDone(c, ok)
              \/ DeleteDone(c, ok)
              \/ FindDone(c, ok)
              \/ ModifyUserFound(c, ok)
              \/ ModifyUserModified(c, ok)
              \/ ModifyUserRenamed(c, ok)
              \/ UnbindDone(c, ok)
              \/ DestroyDone(c, ok)

Spec == Init /\ [][Next]_vars

\* one modifyUser call, on any input map of at most MaxKeys keys
NextModify ==
    \/ /\ started = 0
       /\ \E cn \in CNs, v \in Inputs : ModifyUser("A", cn, v)
    \/ \E ok \in BOOLEAN :
          \/ ModifyUserFound("A", ok)
          \/ ModifyUserModified("A", ok)
          \/ ModifyUserRenamed("A", ok)

SpecModify == Init /\ [][NextModify]_vars

\* one find call, on any where clause of at most MaxPairs pairs
NextFind ==
    \/ /\ started = 0
       /\ \E w \in Wheres : Find("A", w)
    \/ \E ok \in BOOLEAN : FindDone("A", ok)

SpecFind == Init /\ [][NextFind]_vars

\* fixValue applied twice to every raw value
InitFix ==
    /\ InitAdapter
    /\ fx \in { [FxIdle EXCEPT !.pc = "input", !.type = t, !.raw = s] : t \in AttributeTypes, s \in RawStrings }

NextFix == FixOnce \/ FixTwice

SpecFix == InitFix /\ [][NextFix]_vars

----------------------------------------------------------------------------
(* What the claims speak of *)

\* the positions of a caller's calls of one method
CallsOf(r, method) == { i \in 1..Len(r.calls) : r.calls[i].method = method }

\* whether the modify call of a modifyUser was answered with success
ModifyOk(r) == \E i \in CallsOf(r, "modify") : r.calls[i].status = "ok"

\* the new common name the caller's map supplies under cn or username, or Null
SuppliedCn(r) ==
    IF Truthy(r.input["cn"]) THEN r.input["cn"]
    ELSE IF Truthy(r.input["username"]) THEN r.input["username"]
    ELSE Null

WriteMethods == {"add", "del", "modify", "modifyDN"}

AliasKeys ==
    {"username", "firstname", "firstName", "first", "email", "lastname", "lastName", "last", "password"}

\* C1: a modifyUser issues modifyDN only right after its own modify call was
\* answered with success; a modifyUser whose modify failed issues no further
\* call and throws the modify error, whatever other callers do meanwhile.
C1_ModifyDNOnlyAfterModifyOk ==
    \A c \in Callers :
        LET r == inv[c] IN
        r.op = "modifyUser" =>
            /\ \A i \in CallsOf(r, "modifyDN") :
                  /\ i > 1
                  /\ r.calls[i-1].method = "modify"
                  /\ r.calls[i-1].status = "ok"
            /\ \A i \in CallsOf(r, "modify") :
                  r.calls[i].status = "error" =>
                      /\ i = Len(r.calls)
                      /\ r.pc = "done"
                      /\ r.outcome = "raised"
                      /\ r.error = "modify error"

\* a rename was asked for and the modify failed, while the other caller's
\* modifyUser has its modifyDN in flight
C1_Witness ==
    \E c, d \in Callers :
        /\ c # d
        /\ inv[c].op = "modifyUser" /\ Truthy(inv[c].newCn) /\ inv[c].pc = "done"
        /\ inv[c].calls[Len(inv[c].calls)].method = "modify"
        /\ inv[c].calls[Len(inv[c].calls)].status = "error"
        /\ inv[d].op = "modifyUser" /\ inv[d].pc = "modifyDN"

\* C2: a modifyUser whose findUser found no entry throws 'User could not be
\* located', has made no call but the search, and has left the directory as
\* it was.
C2_NotFoundNoWrite ==
    \A c \in Callers :
        LET r == inv[c] IN
        (r.op = "modifyUser" /\ r.calls[1].status = "ok" /\ r.entries = <<>>) =>
            /\ r.pc = "done"
            /\ r.outcome = "raised"
            /\ r.error = "User could not be located"
            /\ \A i \in 1..Len(r.calls) : r.calls[i].method \notin WriteMethods
            /\ dir = InitDir

\* a modifyUser with changes to make and a rename asked for found no user
C2_Witness ==
    \E c \in Callers :
        /\ inv[c].op = "modifyUser" /\ inv[c].pc = "done"
        /\ inv[c].calls[1].status = "ok" /\ inv[c].entries = <<>>
        /\ Truthy(inv[c].newCn) /\ Has(inv[c].values, "mail")

\* C3: when modifyUser's modify succeeded and its modifyDN failed, the
\* replaced attributes are in the entry, the entry is still at its DN and not
\* at the new one, the failed modifyDN is the last call made, and modifyUser
\* throws the modifyDN error.
C3_RenameFailureKeepsAttributes ==
    \A c \in Callers :
        LET r == inv[c] IN
        r.op = "modifyUser" =>
            \A i \in CallsOf(r, "modifyDN") :
                r.calls[i].status = "error" =>
                    /\ i = Len(r.calls)
                    /\ r.pc = "done"
                    /\ r.outcome = "raised"
                    /\ r.error = "modifyDN error"
                    /\ dir[r.userDn].exists
                    /\ \A k \in Keys : Has(r.values, k) => dir[r.userDn].attrs[k] = r.values[k]
                    /\ r.calls[i].newDn # r.userDn => ~dir[r.calls[i].newDn].exists

\* a rename to another name failed after a modify that changed the mail
C3_Witness ==
    \E c \in Callers :
        LET r == inv[c] IN
        /\ r.op = "modifyUser" /\ r.pc = "done" /\ r.error = "modifyDN error"
        /\ r.newCn = "jdoe2" /\ r.userDn = "cn=jdoe,o=acme"
        /\ r.values["mail"] = "jdoe2"
        /\ dir["cn=jdoe,o=acme"].attrs["mail"] = "jdoe2"

\* C4 as stated: a modifyUser whose modify succeeded issues modifyDN exactly
\* when a new common name is supplied that differs from the entry's own.
C4_RenameIffCnDiffers ==
    \A c \in Callers :
        LET r == inv[c] IN
        (r.op = "modifyUser" /\ ModifyOk(r)) =>
            (CallsOf(r, "modifyDN") # {}
                <=> (SuppliedCn(r) # Null /\ SuppliedCn(r) # CnOf(r.userDn)))

\* C4 amended: a modifyUser makes at most one modify and one modifyDN call;
\* once its modify succeeded it has issued modifyDN exactly when a non-empty
\* common name is supplied under cn or username, the entry's own name
\* included; the rename goes from the found entry's DN to
\* cn=<new name>,<baseDn>.
C4_RenameIffCnSupplied ==
    \A c \in Callers :
        LET r == inv[c] IN
        r.op = "modifyUser" =>
            /\ Cardinality(CallsOf(r, "modify")) <= 1
            /\ Cardinality(CallsOf(r, "modifyDN")) <= 1
            /\ ModifyOk(r) => (CallsOf(r, "modifyDN") # {} <=> SuppliedCn(r) # Null)
            /\ ~ModifyOk(r) => CallsOf(r, "modifyDN") = {}
            /\ \A i \in CallsOf(r, "modifyDN") :
                  /\ r.calls[i].dn = r.entries[1]
                  /\ r.calls[i].newDn = "cn=" \o SuppliedCn(r) \o "," \o baseDn

\* the entry's own name was supplied and the rename onto itself was issued
C4_Witness ==
    \E c \in Callers :
        LET r == inv[c] IN
        /\ r.op = "modifyUser" /\ r.pc = "done" /\ r.outcome = "returned"
        /\ SuppliedCn(r) = "jdoe" /\ r.userDn = "cn=jdoe,o=acme"
        /\ \E i \in CallsOf(r, "modifyDN") : r.calls[i].newDn = r.calls[i].dn

\* C5: the changes of the modify call are one replace per attribute left by
\* the normalisation, none of them for an alias key or for cn, none with a
\* null or absent value.
C5_ChangesCanonicalOnly ==
    \A c \in Callers :
        LET r == inv[c] IN
        r.op = "modifyUser" =>
            \A i \in CallsOf(r, "modify") :
                LET ch == r.calls[i].changes IN
                /\ \A j \in 1..Len(ch) :
                      /\ ch[j].operation = "replace"
                      /\ ch[j].modification.type \notin AliasKeys \cup {"cn"}
                      /\ ch[j].modification.values \notin {<<Null>>, <<Undefined>>}
                /\ \A j, k \in 1..Len(ch) : j # k => ch[j].modification.type # ch[k].modification.type
                /\ { ch[j].modification.type : j \in 1..Len(ch) } = { k \in Keys : Has(r.values, k) }

\* C6: a finished unbind or destroy has not thrown and has returned a boolean.
C6_UnbindDestroyNeverRaise ==
    \A c \in Callers :
        (inv[c].op \in {"unbind", "destroy"} /\ inv[c].pc = "done") =>
            /\ inv[c].outcome = "returned"
            /\ inv[c].result \in {"true", "false"}

PairStr(p) == "(" \o p[1] \o "=" \o ToStr(p[2]) \o ")"

RECURSIVE PairsStr(_)
PairsStr(pairs) == IF pairs = <<>> THEN "" ELSE PairStr(Head(pairs)) \o PairsStr(Tail(pairs))

\* the filter built from all pairs: bare for one pair, inside (&...) for more
BuiltFrom(where) ==
    IF Len(where.pairs) = 1 THEN PairStr(where.pairs[1]) ELSE "(&" \o PairsStr(where.pairs) \o ")"

\* whether the where clause has an entry under key (a null one counts as none)
HasEntry(where, key) == \E i \in 1..Len(where.pairs) : where.pairs[i][1] = key /\ where.pairs[i][2] # Null

\* the filter of a find's search call
FilterOf(r) == r.calls[1].filter

\* C8 as stated: no or an empty where gives (cn=*), a where with a filter
\* entry gives that entry, any other where gives the filter built from its pairs.
C8_FilterByFilterEntry ==
    \A c \in Callers :
        LET r == inv[c] IN
        r.op = "find" =>
            FilterOf(r) = IF isEmpty(r.where) THEN "(cn=*)"
                          ELSE IF HasEntry(r.where, "filter") THEN Get(r.where, "filter")
                          ELSE BuiltFrom(r.where)

\* C8 amended: no or an empty where gives (cn=*); a where whose filter entry
\* is a non-empty string gives that string; any other where, one with an
\* empty or null filter entry included, gives the filter built from all its
\* pairs, the filter pair among them.
C8_FilterByTruthyFilterEntry ==
    \A c \in Callers :
        LET r == inv[c] IN
        r.op = "find" =>
            FilterOf(r) = IF ~r.where.given \/ Len(r.where.pairs) = 0 THEN "(cn=*)"
                          ELSE IF Get(r.where, "filter") \notin {Undefined, Null, ""}
                               THEN Get(r.where, "filter")
                          ELSE BuiltFrom(r.where)

\* a where with an empty filter entry and a second pair: both pairs are in
\* the filter built
C8_Witness ==
    \E c \in Callers :
        /\ inv[c].op = "find"
        /\ inv[c].where = Where(<< <<"filter", "">>, <<"cn", "jdoe">> >>)
        /\ FilterOf(inv[c]) = "(&(filter=)(cn=jdoe))"

\* C9: when a new common name is supplied, the changes of the modify call
\* replace uid by that name.
C9_UidFollowsNewCn ==
    \A c \in Callers :
        LET r == inv[c] IN
        (r.op = "modifyUser" /\ SuppliedCn(r) # Null) =>
            \A i \in CallsOf(r, "modify") :
                \E j \in 1..Len(r.calls[i].changes) :
                    /\ r.calls[i].changes[j].operation = "replace"
                    /\ r.calls[i].changes[j].modification = [type |-> "uid", values |-> <<SuppliedCn(r)>>]

IsTrueToken(s) ==
    /\ Len(s) = 4
    /\ s[1] \in {"t", "T"} /\ s[2] \in {"r", "R"} /\ s[3] \in {"u", "U"} /\ s[4] \in {"e", "E"}

IsFalseToken(s) ==
    /\ Len(s) = 5
    /\ s[1] \in {"f", "F"} /\ s[2] \in {"a", "A"} /\ s[3] \in {"l", "L"}
    /\ s[4] \in {"s", "S"} /\ s[5] \in {"e", "E"}

\* what the claim says of the first application
FirstApplication ==
    fx.pc \in {"once", "twice"} =>
        fx.once = IF IsTrueToken(fx.raw) THEN Bool(TRUE)
                  ELSE IF IsFalseToken(fx.raw) THEN Bool(FALSE)
                  ELSE Str(fx.raw)

\* C10 as stated: any casing of true gives true, of false gives false, any
\* other string is returned as it is, and fixValue of the result is the result.
C10_FixValueIdempotent ==
    /\ FirstApplication
    /\ fx.pc = "twice" => fx.twice = fx.once

\* C10 amended: any casing of true gives true, of false gives false, any
\* other string is returned as it is; fixValue of the result is the result
\* when the raw value is no boolean token, and throws a TypeError when it is
\* one (the result is then a boolean, which has no toUpperCase).
C10_FixValueIdempotentOnNonTokens ==
    /\ FirstApplication
    /\ fx.pc = "twice" =>
          fx.twice = IF IsTrueToken(fx.raw) \/ IsFalseToken(fx.raw) THEN TypeError ELSE fx.once

\* a mixed-case true became true, and fixValue of that threw
C10_Witness ==
    /\ fx.pc = "twice"
    /\ fx.raw = <<"T", "r", "U", "e">>
    /\ fx.once = Bool(TRUE)
    /\ fx.twice = TypeError

====
